---- MODULE Spec2Model ----
(***************************************************************************)
(* Model of the page fill worker thread, sched/pg_worker.c.                *)
(*                                                                         *)
(* The file is compiled in one of two ways, selected by the preprocessor   *)
(* symbol CONFIG_PAGING_BLOCKINGFILL.  The model keeps the symbol as a     *)
(* field of the variable config and follows the #ifdef/#ifndef lines of    *)
(* the file literally:                                                     *)
(*   - pg_callback and g_fillresult exist when the symbol is NOT defined   *)
(*     (lines 100, 157);                                                   *)
(*   - pg_startfill calls the blocking up_fillpage when the symbol is      *)
(*     defined and the callback variant when it is not (lines 268-310);    *)
(*   - the body of the loop of pg_worker is the wake-by-wake evaluation    *)
(*     of lines 450-510 when the symbol IS defined (line 444) and the      *)
(*     while loop of lines 516-532 when it is not (line 511).              *)
(* The worker runs with interrupts disabled (line 419); interrupts are     *)
(* enabled only while it is suspended (lines 422-425), so page faults,     *)
(* clock ticks and interrupt-level completions happen only while the       *)
(* worker sleeps in usleep or is blocked inside the blocking up_fillpage.  *)
(*                                                                         *)
(* Further readings of the source:                                         *)
(*   - with CONFIG_PAGING_BLOCKINGFILL defined nothing declares or writes  *)
(*     g_fillresult and g_starttime although lines 456 and 490 read them:  *)
(*     their values are arbitrary and fixed from the start;                *)
(*   - the malformed "#if defined() && ..." of line 486 is read as         *)
(*     "CONFIG_PAGING_TIMEOUT_TICKS is defined" (the other reading is the  *)
(*     build without that symbol);                                         *)
(*   - ASSERT and DEBUGASSERT bring the system down (pc = "halt");         *)
(*   - a non-blocking up_fillpage may call pg_callback before it returns   *)
(*     (lines 284-286: the callback comes "probably" from interrupt level).*)
(***************************************************************************)
EXTENDS Integers, Sequences, FiniteSets, TLC

\* ---------------------------------------------------------------- bounds
NumTasks == 3
MaxFaults == 3
MaxTicks == 2
MaxMsgs == 2

\* ------------------------------------------------------ program constants
CONFIG_PAGING_DEFPRIO == 20
CONFIG_PAGING_TIMEOUT_TICKS == 2
HalfModulus == 65536
OK == 0
EBUSY == 16
ENOSYS == 38
EIO == 5
ENOMEM == 12
NULL == 0

Tasks == 1 .. NumTasks

\* sched_priority field of a task's TCB: odd tasks outrank the worker's
\* default priority, even tasks do not; tasks 1 and 3 have equal priority.
sched_priority(t) == IF t % 2 = 1 THEN 30 ELSE 10

VARIABLES
  config,            \* which preprocessor symbols are defined
  pc,                \* position of the worker thread in pg_worker
  g_pendingfilltcb,  \* line 94
  g_waitingforfill,  \* prioritized task list (head first)
  g_fillresult,      \* line 106
  g_starttime,       \* line 113
  g_system_timer,    \* system tick counter, 32 bits
  wprio,             \* sched_priority of the worker's TCB
  task_state,        \* per task: "run", "waitfill" (queued), "invalid" (limbo)
  mapped,            \* per task: is the page it faulted on mapped now
  inflight,          \* per task: asynchronous fills started and not completed
  sigwork,           \* SIGWORK sent to the worker and not yet consumed
  fatal,             \* why the system was brought down ("none" while up)
  arrival,           \* history: the queued tasks in order of arrival
  fillstat,          \* history: per task, state of the fill last started
  hist               \* history: flags and counters (page faults so far, ...)

vars == << config, pc, g_pendingfilltcb, g_waitingforfill, g_fillresult,
           g_starttime, g_system_timer, wprio, task_state, mapped, inflight,
           sigwork, fatal, arrival, fillstat, hist >>

Range(s) == { s[i] : i \in 1 .. Len(s) }

Remove(s, x) == SelectSeq(s, LAMBDA y : y # x)

BLOCKINGFILL == config.blocking

TIMEOUT_DEFINED == config.timeout

Suspended == pc \in {"sleep", "fillpage"}

\* uint32_t values are kept as two 16-bit halves << high, low >>.
U32(n) == << n \div HalfModulus, n % HalfModulus >>

U32Max == << HalfModulus - 1, HalfModulus - 1 >>

\* a + 1 in 32-bit unsigned arithmetic.
Inc32(a) ==
  IF a[2] + 1 < HalfModulus
    THEN << a[1], a[2] + 1 >>
    ELSE << (a[1] + 1) % HalfModulus, 0 >>

\* a - b in 32-bit unsigned arithmetic.
Sub32(a, b) ==
  LET borrow == IF a[2] < b[2] THEN 1 ELSE 0
  IN << (a[1] - b[1] - borrow + 2 * HalfModulus) % HalfModulus,
        (a[2] - b[2] + HalfModulus) % HalfModulus >>

\* a < b for 32-bit unsigned values.
Lt32(a, b) == a[1] < b[1] \/ (a[1] = b[1] /\ a[2] < b[2])

\* The tick counter when the run starts: one tick before it wraps around,
\* so that fills are started before and after the wrap.
TimerStart == U32Max

Init ==
  /\ config \in [blocking : BOOLEAN, timeout : BOOLEAN]
  /\ pc = "sleep"
  /\ g_pendingfilltcb = NULL
  /\ g_waitingforfill = << >>
  /\ g_fillresult \in (IF config.blocking THEN {OK, -EBUSY, -EIO} ELSE {OK})
  /\ g_system_timer = TimerStart
  /\ g_starttime \in (IF config.blocking /\ config.timeout
                        THEN {U32(0), U32Max} ELSE {U32(0)})
  /\ wprio = CONFIG_PAGING_DEFPRIO
  /\ task_state = [t \in Tasks |-> "run"]
  /\ mapped = [t \in Tasks |-> TRUE]
  /\ inflight = [t \in Tasks |-> 0]
  /\ sigwork = FALSE
  /\ fatal = "none"
  /\ arrival = << >>
  /\ fillstat = [t \in Tasks |-> "none"]
  /\ hist = [nullunblock |-> FALSE, msgs |-> 0, overdue |-> FALSE, faults |-> 0]

\* ------------------------------------------------------------ environment

\* Insertion into a prioritized task list: behind every task of higher or
\* equal priority, ahead of every task of lower priority.
sched_addprioritized(t, q) ==
  LET k == Cardinality({ i \in 1 .. Len(q) :
                           sched_priority(q[i]) >= sched_priority(t) })
  IN SubSeq(q, 1, k) \o << t >> \o SubSeq(q, k + 1, Len(q))

\* The page fault handler: the running task t faults on a page that is not
\* mapped; it is blocked on g_waitingforfill in priority order, the worker
\* is boosted to its priority if that is higher, and the worker is signalled.
pg_miss(t) ==
  /\ Suspended
  /\ task_state[t] = "run"
  /\ hist.faults < MaxFaults
  /\ task_state' = [task_state EXCEPT ![t] = "waitfill"]
  /\ mapped' = [mapped EXCEPT ![t] = FALSE]
  /\ g_waitingforfill' = sched_addprioritized(t, g_waitingforfill)
  /\ arrival' = Append(arrival, t)
  /\ fillstat' = [fillstat EXCEPT ![t] = "none"]
  /\ wprio' = IF sched_priority(t) > wprio THEN sched_priority(t) ELSE wprio
  /\ sigwork' = TRUE
  /\ hist' = [hist EXCEPT !.faults = @ + 1]
  /\ UNCHANGED << config, pc, g_pendingfilltcb, g_fillresult, g_starttime,
                  g_system_timer, inflight, fatal >>

\* The page a queued task waits for is mapped by somebody else (the fault
\* occurred on several threads, lines 241-245).
MapByOther(t) ==
  /\ Suspended
  /\ task_state[t] = "waitfill"
  /\ ~mapped[t]
  /\ mapped' = [mapped EXCEPT ![t] = TRUE]
  /\ UNCHANGED << config, pc, g_pendingfilltcb, g_waitingforfill, g_fillresult,
                  g_starttime, g_system_timer, wprio, task_state, inflight,
                  sigwork, fatal, arrival, fillstat, hist >>

\* One tick of the system clock (32-bit counter).
Tick ==
  /\ Suspended
  /\ TIMEOUT_DEFINED
  /\ Lt32(Sub32(g_system_timer, TimerStart), U32(MaxTicks))
  /\ g_system_timer' = Inc32(g_system_timer)
  /\ UNCHANGED << config, pc, g_pendingfilltcb, g_waitingforfill, g_fillresult,
                  g_starttime, wprio, task_state, mapped, inflight, sigwork,
                  fatal, arrival, fillstat, hist >>

\* ------------------------------------------------------------ pg_callback

\* sched_setpriority is called with the higher of the two priorities
\* without the comparison with the worker's own priority of line 185.
callback_priority_set(pending, queue, wp) ==
  IF pending # NULL
    THEN LET htcb == IF queue = << >> THEN NULL ELSE Head(queue)
             p0 == sched_priority(pending)
         IN IF htcb # NULL /\ p0 < sched_priority(htcb)
              THEN sched_priority(htcb) ELSE p0
    ELSE wp

\* The priority of the head of g_waitingforfill (lines 173-176) is not
\* looked at, and the worker is raised one step above the pending task.
callback_priority_above(pending, queue, wp) ==
  IF pending # NULL
    THEN (IF sched_priority(pending) + 1 > wp
            THEN sched_priority(pending) + 1 ELSE wp)
    ELSE wp

\* Lines 162-188: the worker priority the callback leaves behind.
callback_priority(pending, queue, wp) ==
  IF pending # NULL
    THEN LET htcb == IF queue = << >> THEN NULL ELSE Head(queue)
             p0 == sched_priority(pending)
             priority == IF htcb # NULL /\ p0 < sched_priority(htcb)
                           THEN sched_priority(htcb) ELSE p0
         IN IF priority > wp THEN priority ELSE wp
    ELSE wp

\* The result is stored without the test of g_pendingfilltcb of line 162.
callback_result_unchecked(pending, old, result) ==
  IF result = -EBUSY THEN -ENOSYS ELSE result

\* Lines 162, 190-196: the value of g_fillresult the callback leaves behind.
callback_result(pending, old, result) ==
  IF pending # NULL
    THEN (IF result = -EBUSY THEN -ENOSYS ELSE result)
    ELSE old

\* The callback also takes the head off g_waitingforfill (nothing in lines
\* 158-202 does).
pg_callback_dequeue(tcb, result) ==
  /\ wprio' = callback_priority(g_pendingfilltcb, g_waitingforfill, wprio)
  /\ g_fillresult' = callback_result(g_pendingfilltcb, g_fillresult, result)
  /\ sigwork' = TRUE
  /\ g_waitingforfill' = IF g_waitingforfill = << >>
                            THEN << >> ELSE Tail(g_waitingforfill)
  /\ UNCHANGED g_pendingfilltcb

\* pg_callback(tcb, result), entered with the current globals: it reads
\* g_pendingfilltcb and g_waitingforfill and writes neither.
pg_callback(tcb, result) ==
  /\ wprio' = callback_priority(g_pendingfilltcb, g_waitingforfill, wprio)
  /\ g_fillresult' = callback_result(g_pendingfilltcb, g_fillresult, result)
  /\ sigwork' = TRUE
  /\ UNCHANGED << g_pendingfilltcb, g_waitingforfill >>

Results == {OK, -EBUSY, -EIO}

\* History: how the fill last started for a task ended.
FillStatus(r) ==
  CASE r = OK -> "ok"
    [] r = -EBUSY -> "busy"
    [] OTHER -> "failed"

\* The transport completes an asynchronous fill started for task t and
\* calls the callback it was given, from interrupt level.
FillDone(t, r) ==
  /\ pc = "sleep"
  /\ ~BLOCKINGFILL
  /\ inflight[t] > 0
  /\ inflight' = [inflight EXCEPT ![t] = @ - 1]
  /\ mapped' = [mapped EXCEPT ![t] = IF r = OK THEN TRUE ELSE @]
  /\ fillstat' = [fillstat EXCEPT ![t] = FillStatus(r)]
  /\ pg_callback(t, r)
  /\ UNCHANGED << config, pc, g_starttime, g_system_timer, task_state, fatal,
                  arrival, hist >>

\* ----------------------------------------------------------------- worker

\* The task is left where it is.
no_unblock(tcb) == task_state

\* up_unblock_task(tcb): the task is moved to the ready-to-run list.
up_unblock_task(tcb) == [task_state EXCEPT ![tcb] = "run"]

\* Ticks since g_starttime, in 32-bit unsigned arithmetic (line 490).
Elapsed == Sub32(g_system_timer, g_starttime)

\* What up_allocpage and up_fillpage can do when pg_startfill calls them.
\* Blocking build: the allocation fails, or up_fillpage is entered and blocks.
\* Callback build: the allocation fails, up_fillpage refuses to start, the
\* fill is started and is in flight on return, or the transport has already
\* called pg_callback(tcb, result) when up_fillpage returns.
StartOutcomes ==
  IF BLOCKINGFILL
    THEN { [kind |-> "allocfail", result |-> -ENOMEM],
           [kind |-> "block", result |-> OK] }
    ELSE { [kind |-> "allocfail", result |-> -ENOMEM],
           [kind |-> "startfail", result |-> -EIO],
           [kind |-> "async", result |-> OK] }
         \cup { [kind |-> "sync", result |-> r] : r \in Results }

\* dq_remlast: the entry at the tail of the list (not what line 238 calls).
dq_remlast(q) ==
  IF q = << >>
    THEN [tcb |-> NULL, rest |-> << >>]
    ELSE [tcb |-> q[Len(q)], rest |-> SubSeq(q, 1, Len(q) - 1)]

\* The head of the list is read and left on the list.
dq_peekfirst(q) ==
  IF q = << >>
    THEN [tcb |-> NULL, rest |-> << >>]
    ELSE [tcb |-> Head(q), rest |-> q]

\* dq_remfirst (line 238): the entry removed from the head of the list, or
\* NULL, and the list that is left.
dq_remfirst(q) ==
  IF q = << >>
    THEN [tcb |-> NULL, rest |-> << >>]
    ELSE [tcb |-> Head(q), rest |-> Tail(q)]

\* Where pg_worker continues when pg_startfill returns: line 527 in the
\* while loop, the top of the for loop (usleep) after lines 472 and 508.
AfterStartfill == IF BLOCKINGFILL THEN "sleep" ELSE "fillcomplete"

\* pg_startfill, lines 231-312 (up to the point where the blocking
\* up_fillpage suspends the worker, in the blocking build).
pg_startfill ==
  LET tcb == dq_remfirst(g_waitingforfill).tcb
      rest == dq_remfirst(g_waitingforfill).rest
  IN
  /\ g_waitingforfill' = rest
  /\ arrival' = Remove(arrival, tcb)
  /\ IF tcb = NULL
       THEN /\ g_pendingfilltcb' = NULL
            /\ pc' = AfterStartfill
            /\ UNCHANGED << task_state, inflight, fillstat, g_starttime, fatal,
                            wprio, g_fillresult, sigwork, mapped >>
       ELSE IF mapped[tcb]
       THEN /\ task_state' = up_unblock_task(tcb)
            /\ g_pendingfilltcb' = NULL
            /\ pc' = AfterStartfill
            /\ UNCHANGED << inflight, fillstat, g_starttime, fatal,
                            wprio, g_fillresult, sigwork, mapped >>
       ELSE \E o \in StartOutcomes :
            /\ g_pendingfilltcb' = tcb
            /\ task_state' = [task_state EXCEPT ![tcb] = "invalid"]
            /\ pc' = CASE o.kind \in {"allocfail", "startfail"} -> "halt"
                       [] o.kind = "block" -> "fillpage"
                       [] OTHER -> AfterStartfill
            /\ fatal' = CASE o.kind = "allocfail" -> "allocpage"
                          [] o.kind = "startfail" -> "fillpage"
                          [] OTHER -> fatal
            /\ inflight' = IF o.kind = "async"
                             THEN [inflight EXCEPT ![tcb] = @ + 1] ELSE inflight
            /\ fillstat' = CASE o.kind \in {"block", "async"} ->
                                  [fillstat EXCEPT ![tcb] = "started"]
                             [] o.kind = "sync" ->
                                  [fillstat EXCEPT ![tcb] = FillStatus(o.result)]
                             [] OTHER -> fillstat
            /\ mapped' = IF o.kind = "sync" /\ o.result = OK
                           THEN [mapped EXCEPT ![tcb] = TRUE] ELSE mapped
            /\ wprio' = IF o.kind = "sync"
                          THEN callback_priority(tcb, rest, wprio) ELSE wprio
            /\ g_fillresult' = IF o.kind = "sync"
                                 THEN callback_result(tcb, g_fillresult, o.result)
                                 ELSE g_fillresult
            /\ sigwork' = IF o.kind = "sync" THEN TRUE ELSE sigwork
            /\ g_starttime' = IF o.kind \in {"async", "sync"} /\ TIMEOUT_DEFINED
                                THEN g_system_timer ELSE g_starttime
  /\ UNCHANGED << config, g_system_timer, hist >>

\* pg_alldone, lines 338-343.
pg_alldone ==
  /\ g_pendingfilltcb' = NULL
  /\ wprio' = CONFIG_PAGING_DEFPRIO

\* pg_fillcomplete, lines 370-377, continuing at next.  With
\* g_pendingfilltcb NULL, up_unblock_task dereferences a null pointer: the
\* system crashes or the call has no effect on the tasks of the model.
pg_fillcomplete(next) ==
  IF g_pendingfilltcb = NULL
    THEN /\ hist' = [hist EXCEPT !.nullunblock = TRUE]
         /\ \E crash \in BOOLEAN :
              /\ pc' = IF crash THEN "halt" ELSE next
              /\ fatal' = IF crash THEN "nullderef" ELSE fatal
         /\ UNCHANGED task_state
    ELSE /\ task_state' = up_unblock_task(g_pendingfilltcb)
         /\ pc' = next
         /\ UNCHANGED << hist, fatal >>

\* usleep returns (line 432): SIGWORK was delivered or the period elapsed.
W_Wake ==
  /\ pc = "sleep"
  /\ pc' = IF BLOCKINGFILL THEN "eval" ELSE "loop"
  /\ sigwork' = FALSE
  /\ hist' = [hist EXCEPT !.overdue =
                @ \/ ( /\ TIMEOUT_DEFINED
                       /\ ~BLOCKINGFILL
                       /\ \E t \in Tasks : inflight[t] > 0
                       /\ ~Lt32(Elapsed, U32(CONFIG_PAGING_TIMEOUT_TICKS)) )]
  /\ UNCHANGED << config, g_pendingfilltcb, g_waitingforfill, g_fillresult,
                  g_starttime, g_system_timer, wprio, task_state, mapped,
                  inflight, fatal, arrival, fillstat >>

\* Lines 450-480: a fill is pending and g_fillresult is not -EBUSY.
W_Complete ==
  /\ pc = "eval"
  /\ g_pendingfilltcb # NULL
  /\ g_fillresult # -EBUSY
  /\ IF g_fillresult # OK
       THEN /\ pc' = "halt"
            /\ fatal' = "fillresult"
            /\ UNCHANGED << task_state, hist >>
       ELSE pg_fillcomplete(IF g_waitingforfill # << >>
                              THEN "startfill" ELSE "alldone")
  /\ UNCHANGED << config, g_pendingfilltcb, g_waitingforfill, g_fillresult,
                  g_starttime, g_system_timer, wprio, mapped, inflight,
                  sigwork, arrival, fillstat >>

\* Lines 482-492: a fill is pending and g_fillresult is -EBUSY.
W_Timeout ==
  /\ pc = "eval"
  /\ g_pendingfilltcb # NULL
  /\ g_fillresult = -EBUSY
  /\ IF TIMEOUT_DEFINED
       THEN /\ hist' = [hist EXCEPT !.msgs = IF @ < MaxMsgs THEN @ + 1 ELSE @]
            /\ IF Lt32(Elapsed, U32(CONFIG_PAGING_TIMEOUT_TICKS))
                 THEN pc' = "sleep" /\ UNCHANGED fatal
                 ELSE pc' = "halt" /\ fatal' = "timeout"
       ELSE pc' = "sleep" /\ UNCHANGED << hist, fatal >>
  /\ UNCHANGED << config, g_pendingfilltcb, g_waitingforfill, g_fillresult,
                  g_starttime, g_system_timer, wprio, task_state, mapped,
                  inflight, sigwork, arrival, fillstat >>

\* Lines 500-510: no fill is pending.
W_Initiate ==
  /\ pc = "eval"
  /\ g_pendingfilltcb = NULL
  /\ pc' = IF g_waitingforfill # << >> THEN "startfill" ELSE "sleep"
  /\ UNCHANGED << config, g_pendingfilltcb, g_waitingforfill, g_fillresult,
                  g_starttime, g_system_timer, wprio, task_state, mapped,
                  inflight, sigwork, fatal, arrival, fillstat, hist >>

\* Line 516: the test of the while loop.
W_LoopTest ==
  /\ pc = "loop"
  /\ pc' = IF g_waitingforfill # << >> THEN "startfill" ELSE "alldone"
  /\ UNCHANGED << config, g_pendingfilltcb, g_waitingforfill, g_fillresult,
                  g_starttime, g_system_timer, wprio, task_state, mapped,
                  inflight, sigwork, fatal, arrival, fillstat, hist >>

\* Lines 472, 508, 520: the call of pg_startfill.
W_StartFill ==
  /\ pc = "startfill"
  /\ pg_startfill

\* Lines 277-278: the blocking up_fillpage returns its result.
W_FillPageReturn ==
  /\ pc = "fillpage"
  /\ \E r \in {OK, -EIO} :
       /\ pc' = IF r = OK THEN AfterStartfill ELSE "halt"
       /\ fatal' = IF r = OK THEN fatal ELSE "fillpage"
       /\ mapped' = IF r = OK
                      THEN [mapped EXCEPT ![g_pendingfilltcb] = TRUE] ELSE mapped
       /\ fillstat' = [fillstat EXCEPT ![g_pendingfilltcb] = FillStatus(r)]
  /\ UNCHANGED << config, g_pendingfilltcb, g_waitingforfill, g_fillresult,
                  g_starttime, g_system_timer, wprio, task_state, inflight,
                  sigwork, arrival, hist >>

\* Line 527 followed by line 532: an "if" in place of the "while" of line
\* 516, so that pg_alldone follows the first fill.
W_FillComplete_once ==
  /\ pc = "fillcomplete"
  /\ pg_fillcomplete("alldone")
  /\ UNCHANGED << config, g_pendingfilltcb, g_waitingforfill, g_fillresult,
                  g_starttime, g_system_timer, wprio, mapped, inflight,
                  sigwork, arrival, fillstat >>

\* Line 527: the call of pg_fillcomplete in the while loop.
W_FillComplete ==
  /\ pc = "fillcomplete"
  /\ pg_fillcomplete("loop")
  /\ UNCHANGED << config, g_pendingfilltcb, g_waitingforfill, g_fillresult,
                  g_starttime, g_system_timer, wprio, mapped, inflight,
                  sigwork, arrival, fillstat >>

\* Lines 478, 532: the call of pg_alldone, then back to usleep.
W_AllDone ==
  /\ pc = "alldone"
  /\ pg_alldone
  /\ pc' = "sleep"
  /\ UNCHANGED << config, g_waitingforfill, g_fillresult, g_starttime,
                  g_system_timer, task_state, mapped, inflight, sigwork,
                  fatal, arrival, fillstat, hist >>

Worker ==
  \/ W_Wake
  \/ W_Complete
  \/ W_Timeout
  \/ W_Initiate
  \/ W_LoopTest
  \/ W_StartFill
  \/ W_FillPageReturn
  \/ W_FillComplete
  \/ W_AllDone

Environment ==
  \/ \E t \in Tasks : pg_miss(t)
  \/ \E t \in Tasks : MapByOther(t)
  \/ \E t \in Tasks, r \in Results : FillDone(t, r)
  \/ Tick

Next == Worker \/ Environment

Spec == Init /\ [][Next]_vars

\* The worker is scheduled whenever it can run: usleep returns at the latest
\* after CONFIG_PAGING_WORKPERIOD (line 432), and a started transport
\* delivers its completion.
FairSpec ==
  /\ Spec
  /\ WF_vars(Worker)
  /\ \A t \in Tasks : WF_vars(FillDone(t, OK))

\* ------------------------------------------------------------- properties

\* Number of fills that have been started and have not completed: the
\* asynchronous ones in flight, and the blocking one the worker waits in.
FillsInFlight(t) ==
  inflight[t] + (IF pc = "fillpage" /\ g_pendingfilltcb = t THEN 1 ELSE 0)

\* C1: a task that left the queue for a fill becomes ready-to-run only
\* when the fill last started for it has completed with success, or
\* directly from the queue when its page is found mapped.
C1_UnblockOnlyAfterFill ==
  [][ \A t \in Tasks :
        (task_state[t] # "run" /\ task_state'[t] = "run") =>
          \/ fillstat[t] = "ok"
          \/ (task_state[t] = "waitfill" /\ mapped[t]) ]_vars

\* C2: at most one fill is in flight at any time.
C2_OneFillInFlight ==
  /\ \A t \in Tasks : FillsInFlight(t) <= 1
  /\ Cardinality({ t \in Tasks : FillsInFlight(t) > 0 }) <= 1

\* A fill was started for t and the worker has not processed its completion.
FillOutstanding(t) ==
  \/ inflight[t] > 0
  \/ (task_state[t] = "invalid" /\ fillstat[t] # "none")

\* C3: while the worker sleeps in usleep, g_pendingfilltcb is t exactly
\* when a fill was started for t and its completion is not yet processed.
C3_SlotIffFillOutstanding ==
  pc = "sleep" =>
    \A t \in Tasks : (g_pendingfilltcb = t) <=> FillOutstanding(t)

\* C4: no task is on g_waitingforfill twice, and the task in
\* g_pendingfilltcb is not on g_waitingforfill.
C4_QueueSlotDisjoint ==
  /\ \A i, j \in 1 .. Len(g_waitingforfill) :
        g_waitingforfill[i] = g_waitingforfill[j] => i = j
  /\ g_pendingfilltcb # NULL => g_pendingfilltcb \notin Range(g_waitingforfill)

C4_Witness ==
  /\ g_pendingfilltcb # NULL
  /\ Len(g_waitingforfill) = NumTasks - 1
  /\ pc \in {"sleep", "fillcomplete"}

\* C5: the worker's priority is at least the priority of the task in
\* g_pendingfilltcb and at least that of the head of g_waitingforfill.
C5_WorkerPriorityCovers ==
  /\ g_pendingfilltcb # NULL => wprio >= sched_priority(g_pendingfilltcb)
  /\ g_waitingforfill # << >> => wprio >= sched_priority(Head(g_waitingforfill))

C5_Witness ==
  /\ g_pendingfilltcb # NULL
  /\ g_waitingforfill # << >>
  /\ sched_priority(g_pendingfilltcb) < sched_priority(Head(g_waitingforfill))
  /\ wprio > CONFIG_PAGING_DEFPRIO
  /\ \E t \in Tasks : FillsInFlight(t) > 0

\* C6: asleep with nothing pending and nothing queued, the worker runs at
\* CONFIG_PAGING_DEFPRIO.
C6_IdleAtDefaultPriority ==
  (pc = "sleep" /\ g_pendingfilltcb = NULL /\ g_waitingforfill = << >>)
    => wprio = CONFIG_PAGING_DEFPRIO

\* Position of task t in the sequence s (0 when absent).
Pos(s, t) == IF t \in Range(s) THEN CHOOSE i \in 1 .. Len(s) : s[i] = t ELSE 0

\* C7: the task taken off g_waitingforfill has the highest priority of all
\* queued tasks and, among those of that priority, arrived first.
C7_HighestPriorityFirst ==
  [][ \A t \in Tasks :
        (t \in Range(g_waitingforfill) /\ t \notin Range(g_waitingforfill')) =>
          \A u \in Range(g_waitingforfill) \ {t} :
            \/ sched_priority(u) < sched_priority(t)
            \/ ( /\ sched_priority(u) = sched_priority(t)
                 /\ Pos(arrival, t) < Pos(arrival, u) ) ]_vars

\* A task was selected ahead of an earlier arrival of lower priority and of
\* a later arrival of equal priority, both still queued.
C7_Witness ==
  /\ g_pendingfilltcb # NULL
  /\ Len(g_waitingforfill) = 2
  /\ sched_priority(g_waitingforfill[1]) = sched_priority(g_pendingfilltcb)
  /\ sched_priority(g_waitingforfill[2]) < sched_priority(g_pendingfilltcb)
  /\ arrival = << g_waitingforfill[2], g_waitingforfill[1] >>

\* C8: in the callback build, a queued task is eventually made
\* ready-to-run, unless page allocation or the start of a fill failed.
C8_EventuallyUnblocked ==
  \A t \in Tasks :
    (~BLOCKINGFILL /\ task_state[t] = "waitfill")
      ~> (task_state[t] = "run" \/ fatal \in {"allocpage", "fillpage"})

\* C9: after the callback was called with -EBUSY for the fill of task t,
\* g_fillresult does not hold -EBUSY (it holds -ENOSYS while t is pending),
\* and t is not made ready-to-run.
C9_BusyCompletionIsFatal ==
  \A t \in Tasks :
    fillstat[t] = "busy" =>
      /\ g_fillresult # -EBUSY
      /\ g_pendingfilltcb = t => g_fillresult = -ENOSYS
      /\ task_state[t] # "run"

\* C10: in the callback build with a timeout budget, a wake at which a fill
\* is in flight and the budget has elapsed ends in the fatal timeout, and
\* "Timeout!" is reported once, together with that fatal timeout.
C10_TimeoutReportedOnce ==
  (~BLOCKINGFILL /\ TIMEOUT_DEFINED) =>
    /\ (hist.overdue /\ pc = "sleep") => fatal = "timeout"
    /\ hist.msgs <= 1
    /\ hist.msgs = 1 => fatal = "timeout"

\* C11: when a task is taken off g_waitingforfill and its page is found
\* mapped, the task is made ready-to-run in the same call of pg_startfill,
\* no page is allocated and no fill is started for it, and
\* g_pendingfilltcb is NULL afterwards.
C11_MappedShortCircuit ==
  [][ \A t \in Tasks :
        ( /\ t \in Range(g_waitingforfill)
          /\ t \notin Range(g_waitingforfill')
          /\ mapped[t] ) =>
          /\ task_state'[t] = "run"
          /\ g_pendingfilltcb' = NULL
          /\ inflight' = inflight
          /\ fillstat' = fillstat
          /\ fatal' = fatal
          /\ pc' # "fillpage" ]_vars

\* pg_startfill has just returned through the already-mapped path.
C11_Witness ==
  /\ pc = "fillcomplete"
  /\ g_pendingfilltcb = NULL
  /\ \E t \in Tasks :
       task_state[t] = "run" /\ mapped[t] /\ fillstat[t] = "none"
  /\ g_waitingforfill # << >>

\* A completion of an asynchronous fill is delivered in this step.
CallbackStep == \E t \in Tasks : inflight'[t] < inflight[t]

\* C12: a callback that finds g_pendingfilltcb NULL signals the worker and
\* leaves g_fillresult, the worker priority, g_pendingfilltcb and
\* g_waitingforfill as they were.
C12_SpuriousCallbackOnlySignals ==
  [][ (CallbackStep /\ g_pendingfilltcb = NULL) =>
        /\ sigwork'
        /\ g_fillresult' = g_fillresult
        /\ wprio' = wprio
        /\ g_pendingfilltcb' = g_pendingfilltcb
        /\ g_waitingforfill' = g_waitingforfill ]_vars

\* After one page fault, a completion with an error was delivered while
\* g_pendingfilltcb was NULL: the worker is signalled, g_fillresult is
\* still OK.
C12_Witness ==
  /\ ~BLOCKINGFILL
  /\ pc = "sleep"
  /\ hist.faults = 1
  /\ sigwork
  /\ g_pendingfilltcb = NULL
  /\ g_fillresult = OK
  /\ \E t \in Tasks : fillstat[t] = "failed" /\ inflight[t] = 0

\* C13: in the blocking build, a task is taken off g_waitingforfill only
\* when every task taken before it has been made ready-to-run, and when the
\* worker goes back to sleep g_waitingforfill is empty, g_pendingfilltcb is
\* NULL, no dequeued task is left blocked and the worker runs at
\* CONFIG_PAGING_DEFPRIO.
C13_BlockingPassDrains ==
  [][ BLOCKINGFILL =>
        /\ Len(g_waitingforfill') < Len(g_waitingforfill) =>
              \A t \in Tasks : task_state[t] # "invalid"
        /\ (pc # "sleep" /\ pc' = "sleep") =>
              /\ g_waitingforfill' = << >>
              /\ g_pendingfilltcb' = NULL
              /\ \A t \in Tasks : task_state'[t] # "invalid"
              /\ wprio' = CONFIG_PAGING_DEFPRIO ]_vars

SyncCallbackStep ==
  /\ pc = "startfill"
  /\ pc' = "fillcomplete"
  /\ g_pendingfilltcb' # NULL
  /\ inflight' = inflight

\* C15: the callback leaves g_waitingforfill, g_pendingfilltcb and the
\* state of every task as they are: delivered while the worker sleeps it
\* changes none of them, and called from within up_fillpage it leaves the
\* list and the slot as pg_startfill set them.
C15_CallbackWriteSurface ==
  [][ /\ CallbackStep =>
            /\ g_waitingforfill' = g_waitingforfill
            /\ g_pendingfilltcb' = g_pendingfilltcb
            /\ task_state' = task_state
            /\ sigwork'
      /\ SyncCallbackStep =>
            /\ g_waitingforfill' = Tail(g_waitingforfill)
            /\ g_pendingfilltcb' = Head(g_waitingforfill)
            /\ sigwork' ]_vars

\* A completion was delivered while the worker slept with a task on
\* g_waitingforfill: the task is still there, the slot is still NULL.
C15_Witness ==
  /\ ~BLOCKINGFILL
  /\ pc = "sleep"
  /\ sigwork
  /\ hist.faults = 2
  /\ g_pendingfilltcb = NULL
  /\ Len(g_waitingforfill) = 1
  /\ task_state[Head(g_waitingforfill)] = "waitfill"
  /\ g_fillresult = OK
  /\ \E t \in Tasks : inflight[t] = 0 /\ fillstat[t] \in {"busy", "failed"}

\* C16: in the callback build, while a fill that was started is in flight
\* and pg_callback has not been called for it, g_fillresult is -EBUSY.
C16_BusyWhileInFlight ==
  ~BLOCKINGFILL =>
    \A t \in Tasks : inflight[t] > 0 => g_fillresult = -EBUSY

\* A fill is started for task u in this step.
FillStartStep(u) ==
  /\ fillstat'[u] # fillstat[u]
  /\ fillstat'[u] # "none"
  /\ fillstat[u] # "started"

\* C17: once the fill of task t has completed with an error, t is not made
\* (and is not left) ready-to-run and no fill is started for any task.
C17_FailedCompletionIsFatal ==
  [][ \A t \in Tasks :
        fillstat[t] = "failed" =>
          /\ task_state'[t] # "run"
          /\ \A u \in Tasks : ~FillStartStep(u) ]_vars

\* The highest of the worker priority, the priority of the pending task
\* and the priority of the head of the list, if there is one.
MaxWaitingPriority(wp, pending, queue) ==
  LET S == {wp, sched_priority(pending)}
             \cup (IF queue = << >> THEN {} ELSE {sched_priority(Head(queue))})
  IN CHOOSE m \in S : \A x \in S : x <= m

C20_UnblockNeverOnEmptySlot ==
  /\ pc = "fillcomplete" => g_pendingfilltcb # NULL
  /\ ~hist.nullunblock

\* What pg_callback stores in g_fillresult for a fill that ended with the
\* given status (lines 190-196).
StoredResult(status) ==
  CASE status = "ok" -> OK
    [] status = "busy" -> -ENOSYS
    [] OTHER -> -EIO

\* C21: when the worker completes the task in g_pendingfilltcb (makes it
\* ready-to-run after its fill), the completion of the fill last started
\* for that task has been delivered and g_fillresult holds the result of
\* that completion, not a value from another fill or from start-up.
C21_ResultBelongsToOccupant ==
  [][ \A t \in Tasks :
        ( /\ g_pendingfilltcb = t
          /\ task_state[t] = "invalid"
          /\ task_state'[t] = "run" ) =>
          /\ fillstat[t] \in {"ok", "busy", "failed"}
          /\ g_fillresult = StoredResult(fillstat[t]) ]_vars

====
